---- MODULE Spec2Model ----
(***************************************************************************)
(* A model of the proximity-graph builder (Funcs/MakeGraph.py) and of the  *)
(* dataset layer built on it (Funcs/DataLoader.py).                        *)
(*                                                                         *)
(* Numbers.  Bounding boxes are integers, so a centroid (max + min) / 2 is *)
(* a multiple of 1/2.  A centroid is kept as the integer max + min, i.e.   *)
(* in units of 1/2, and the distance sqrt(dx^2 + dy^2) between two         *)
(* centroids is kept as the integer q = dx^2 + dy^2 taken in those units,  *)
(* so that dist = sqrt(q) / 2.  sqrt is strictly increasing, hence         *)
(* 0 < dist  <=>  0 < q   and   dist < ld  <=>  ld > 0 /\ q < 4 * ld^2.    *)
(***************************************************************************)
EXTENDS Integers, Sequences, FiniteSets, TLC

VARIABLES
    df,          \* MakeGraph.df: the table [cols: column names, rows: sequence of rows]
    nodeweight,  \* MakeGraph.nodeweight: the list of weight column names
    ld,          \* MakeGraph.ld: maxlinkingdistance
    op,          \* the method of MakeGraph called last
    image,       \* the image argument of that call, if it was graph()
    status,      \* how that call ended: "returned", "returned_none", a raised error
    nodes,       \* the list addnodes() returned in that call
    edges,       \* the list addedges() returned in that call
    distcalls,   \* how many times that call evaluated line 58 (dist = sqrt(...))
    G,           \* the networkx graph that call built
    images,      \* the PNG files written under datadir/GraphImages
    rawdir,      \* root/raw: the file names, in os.listdir order
    procdir,     \* root/processed: the files <<name, content>>, in os.listdir order
    pre_filter,  \* Dataset.pre_filter: "None" or the name of a predicate on graphs
    dop,         \* the method of NuclearSubtypeDataset called last, or "raw_changed"
    darg,        \* the index that call was given
    dstatus,     \* how that call ended
    dvalue,      \* what that call returned
    built,       \* after process(): the sample ids it invoked MakeGraph for
    saved,       \* after process(): the artifact names torch.save wrote
    cached,      \* after process(): root/processed as it was when the call began
    idx_id,      \* after process(): <<the dict idx_id of line 98>>, <<>> if the
                 \* loop did not end
    idx_json,    \* PositionInputData/idx_id.json: "None" or the file's content
    passes       \* process() calls made since the raw directory last changed (capped)

bvars == <<df, nodeweight, ld, op, image, status, nodes, edges, distcalls, G, images>>
dvars == <<rawdir, procdir, pre_filter, dop, darg, dstatus, dvalue,
           built, saved, cached, idx_id, idx_json, passes>>
vars == <<df, nodeweight, ld, op, image, status, nodes, edges, distcalls, G, images,
          rawdir, procdir, pre_filter, dop, darg, dstatus, dvalue,
          built, saved, cached, idx_id, idx_json, passes>>

\* ------------------------------------------------------------------ bounds
MaxRecords == 3
MaxWeights == 3
MaxRaw == 2
MaxIdx == 2
MaxPasses == 2

\* ------------------------------------------------- python values and helpers
None == "None"
EmptyDict == [k \in {} |-> 0]
Range(s) == {s[i] : i \in 1..Len(s)}
Abs(x) == IF x < 0 THEN -x ELSE x

\* str(nodeid) of an integer index value
str(x) == ToString(x)

\* int(x) of a float x given in units of 1/2: truncation toward zero
intFloor(h) == h \div 2
int(h) == IF h >= 0 THEN h \div 2 ELSE -((-h) \div 2)

\* dict.update: d2's keys override d1's
update(d1, d2) ==
    [k \in (DOMAIN d1) \cup (DOMAIN d2) |-> IF k \in DOMAIN d2 THEN d2[k] ELSE d1[k]]

\* ------------------------------------------------------------- the table
Stain1 == "Stain 1 Nucleus OD"
Stain2 == "Stain 2 Cytoplasm OD"
StainColumns == {Stain1, Stain2}

\* pd.read_csv(..., index_col=0): the rows of the file; "id" is the index value
ReadRow(id, xe, ye) ==
    [c \in {"id", "XMin", "XMax", "YMin", "YMax", Stain1, Stain2} |->
        CASE c = "id" -> id
          [] c = "XMin" -> xe[1]
          [] c = "XMax" -> xe[2]
          [] c = "YMin" -> ye[1]
          [] c = "YMax" -> ye[2]
          [] c = Stain1 -> 10 + id
          [] c = Stain2 -> 20 + id]

XExtents == {<<-3, 0>>, <<0, 3>>}
YExtents == {<<0, 0>>, <<0, 4>>}

\* the index values of an n-row table: unique, ascending or descending
IdLayouts(n) == {[i \in 1..n |-> i], [i \in 1..n |-> n + 1 - i]}

CsvColumns == {"id", "XMin", "XMax", "YMin", "YMax", Stain1, Stain2}

Tables ==
    UNION {UNION {{[cols |-> CsvColumns,
                    rows |-> [i \in 1..n |-> ReadRow(ids[i], xs[i], ys[i])]] :
                        xs \in [1..n -> XExtents], ys \in [1..n -> YExtents]} :
                  ids \in IdLayouts(n)} :
           n \in 0..MaxRecords}

\* nodeweight lists: 0..MaxWeights column names of the table
NodeWeights ==
    UNION {{[i \in 1..n |-> IF i % 2 = 1 THEN first
                            ELSE CHOOSE c \in StainColumns : c # first] :
                first \in StainColumns} :
           n \in 0..MaxWeights}

LinkDistances == {0, 3}

\* ------------------------------------------------------------ addnodes()
WithCentroidsInPlace(d) ==
    [cols |-> d.cols \cup {"XCentroid", "YCentroid"},
     rows |-> [i \in 1..Len(d.rows) |->
                 update(d.rows[i],
                        [XCentroid |-> d.rows[i]["XMax"] + d.rows[i]["XMin"],
                         YCentroid |-> d.rows[i]["YMax"] + d.rows[i]["YMin"],
                         XMax |-> d.rows[i]["XMax"] + d.rows[i]["XMin"],
                         YMax |-> d.rows[i]["YMax"] + d.rows[i]["YMin"]])]]
\* lines 80-81: the centroid columns, written into self.df
WithCentroids(d) ==
    [cols |-> d.cols \cup {"XCentroid", "YCentroid"},
     rows |-> [i \in 1..Len(d.rows) |->
                 update(d.rows[i],
                        [XCentroid |-> d.rows[i]["XMax"] + d.rows[i]["XMin"],
                         YCentroid |-> d.rows[i]["YMax"] + d.rows[i]["YMin"]])]]

\* line 83: self.df[['XCentroid', 'YCentroid']].values.tolist()
positionsOf(d) ==
    [i \in 1..Len(d.rows) |-> <<d.rows[i]["XCentroid"], d.rows[i]["YCentroid"]>>]

\* lines 95 and 103: (int(position[0]), int(position[1]))
pos(position) == <<int(position[1]), int(position[2])>>

\* lines 93-95 and 103-104: the node of one row
node(nodeid, stain, position) ==
    IF Len(stain) = 2
    THEN <<str(nodeid), [weight |-> stain[1], size |-> stain[2], pos |-> pos(position)]>>
    ELSE <<str(nodeid), [weight |-> stain[1], pos |-> pos(position)]>>

\* addnodes(): the table it leaves in self.df and the list it returns
addnodes(d, nw) ==
    LET d2 == WithCentroids(d)
        positions == positionsOf(d2)
        stains == [i \in 1..Len(d2.rows) |-> [j \in 1..Len(nw) |-> d2.rows[i][nw[j]]]]
    IN  [df |-> d2,
         nodes |-> IF Len(nw) = 2 \/ Len(nw) = 1
                   THEN [i \in 1..Len(d2.rows) |->
                            node(d2.rows[i]["id"], stains[i], positions[i])]
                   ELSE <<>>]

\* ------------------------------------------------------------ addedges()
combinations(l) ==
    LET n == Len(l)
        all == [k \in 1..(n * n) |-> <<((k - 1) \div n) + 1, ((k - 1) % n) + 1>>]
        upper == SelectSeq(all, LAMBDA ij : ij[1] < ij[2])
    IN  [k \in 1..Len(upper) |-> <<l[upper[k][1]], l[upper[k][2]]>>]
\* itertools.product(l, repeat=2) as a list: every ordered pair, row-major
product(l) ==
    LET n == Len(l)
    IN  [k \in 1..(n * n) |-> <<l[((k - 1) \div n) + 1], l[((k - 1) % n) + 1]>>]

\* lines 46-50: zip(xpairs, ypairs)
centroidpairs(d) ==
    LET xlist == [i \in 1..Len(d.rows) |-> <<d.rows[i]["id"], d.rows[i]["XCentroid"]>>]
        ylist == [i \in 1..Len(d.rows) |-> <<d.rows[i]["id"], d.rows[i]["YCentroid"]>>]
        xpairs == product(xlist)
        ypairs == product(ylist)
    IN  [k \in 1..Len(xpairs) |-> <<xpairs[k], ypairs[k]>>]

\* line 58, as q = (2 * dist)^2
dist(pair) ==
    (pair[1][2][2] - pair[1][1][2]) * (pair[1][2][2] - pair[1][1][2])
    + (pair[2][2][2] - pair[2][1][2]) * (pair[2][2][2] - pair[2][1][2])

linkedInclusive(q, maxld) == 0 < q /\ maxld > 0 /\ q <= 4 * maxld * maxld
\* line 62: 0 < dist < self.ld
linked(q, maxld) == 0 < q /\ maxld > 0 /\ q < 4 * maxld * maxld

\* the loop with the distance taken only for pairs of distinct ids
RECURSIVE edgeloopDistinct(_, _, _, _)
edgeloopDistinct(pairs, k, maxld, acc) ==
    IF k > Len(pairs) THEN acc
    ELSE LET pair == pairs[k]
             ids == <<pair[1][1][1], pair[1][2][1]>>
             d == dist(pair)
         IN  IF ids[1] = ids[2] THEN edgeloopDistinct(pairs, k + 1, maxld, acc)
             ELSE IF linked(d, maxld)
                  THEN edgeloopDistinct(pairs, k + 1, maxld,
                           [edges |-> Append(acc.edges,
                                             <<str(ids[1]), str(ids[2]), [length |-> d]>>),
                            dists |-> acc.dists + 1])
                  ELSE edgeloopDistinct(pairs, k + 1, maxld,
                           [edges |-> acc.edges, dists |-> acc.dists + 1])

\* lines 54-66: the loop over centroidpairs, from pair k on; acc.edges is the
\* list edges, acc.dists counts the evaluations of line 58, which comes before
\* the test of the ids at line 59
RECURSIVE edgeloop(_, _, _, _)
edgeloop(pairs, k, maxld, acc) ==
    IF k > Len(pairs) THEN acc
    ELSE LET pair == pairs[k]
             ids == <<pair[1][1][1], pair[1][2][1]>>
             d == dist(pair)
             evaluated == [edges |-> acc.edges, dists |-> acc.dists + 1]
         IN  IF ids[1] = ids[2] THEN edgeloop(pairs, k + 1, maxld, evaluated)
             ELSE IF linked(d, maxld)
                  THEN edgeloop(pairs, k + 1, maxld,
                           [edges |-> Append(evaluated.edges,
                                             <<str(ids[1]), str(ids[2]), [length |-> d]>>),
                            dists |-> evaluated.dists])
                  ELSE edgeloop(pairs, k + 1, maxld, evaluated)

\* addedges(): edges is the list it returns, dists the distances it computed;
\* KeyError without the centroid columns
addedges(d, maxld) ==
    edgeloop(centroidpairs(d), 1, maxld, [edges |-> <<>>, dists |-> 0])

\* --------------------------------------------------------------- graph()
\* nx.Graph(): node = the nodes <<id, attributes>> in insertion order,
\* adj = the adjacency, one entry <<u, v>> |-> attributes per direction
EmptyGraph == [node |-> <<>>, adj |-> EmptyDict]

NodeIds(g) == {g.node[i][1] : i \in 1..Len(g.node)}
NodeIndex(g, n) == CHOOSE i \in 1..Len(g.node) : g.node[i][1] = n

\* Graph.add_node(n, **attr)
add_node(g, n, attr) ==
    IF n \in NodeIds(g)
    THEN [g EXCEPT !.node[NodeIndex(g, n)] = <<n, update(@[2], attr)>>]
    ELSE [g EXCEPT !.node = Append(@, <<n, attr>>)]

\* Graph.add_nodes_from(list of (n, attributes)), from entry k on
RECURSIVE add_nodes_from(_, _, _)
add_nodes_from(g, l, k) ==
    IF k > Len(l) THEN g
    ELSE add_nodes_from(add_node(g, l[k][1], l[k][2]), l, k + 1)

\* Graph.add_edge(u, v, **attr): both endpoints become nodes, both directions
\* of the adjacency share the attributes
add_edge(g, u, v, attr) ==
    LET g1 == IF u \in NodeIds(g) THEN g ELSE add_node(g, u, EmptyDict)
        g2 == IF v \in NodeIds(g1) THEN g1 ELSE add_node(g1, v, EmptyDict)
        old == IF <<u, v>> \in DOMAIN g2.adj THEN g2.adj[<<u, v>>] ELSE EmptyDict
        datadict == update(old, attr)
    IN  [g2 EXCEPT !.adj =
            [e \in (DOMAIN g2.adj) \cup {<<u, v>>, <<v, u>>} |->
                IF e \in {<<u, v>>, <<v, u>>} THEN datadict ELSE g2.adj[e]]]

\* Graph.add_edges_from(list of (u, v, attributes)), from entry k on
RECURSIVE add_edges_from(_, _, _)
add_edges_from(g, l, k) ==
    IF k > Len(l) THEN g
    ELSE add_edges_from(add_edge(g, l[k][1], l[k][2], l[k][3]), l, k + 1)

\* Graph.edges: each edge reported once, from the endpoint inserted first
EdgeView(g) ==
    {e \in DOMAIN g.adj : NodeIndex(g, e[1]) <= NodeIndex(g, e[2])}

\* Graph.has_edge(u, v)
has_edge(g, u, v) == <<u, v>> \in DOMAIN g.adj

\* lines 123-125 and 128-167: what graph(image) leaves and returns
graph(d, nw, maxld, img) ==
    LET an == addnodes(d, nw)
        ae == addedges(an.df, maxld)
        g == add_edges_from(add_nodes_from(EmptyGraph, an.nodes, 1), ae.edges, 1)
        draws == img = "yes" \/ img = "Yes"
    IN  [df |-> an.df, nodes |-> an.nodes, edges |-> ae.edges, dists |-> ae.dists,
         G |-> g,
         png |-> draws /\ (Len(nw) = 2 \/ Len(nw) = 1),
         status |-> IF draws /\ ~(Len(nw) = 2 \/ Len(nw) = 1)
                    THEN "returned_none" ELSE "returned"]

\* ---------------------------------------------------- the builder's actions
NoDataset ==
    /\ rawdir = <<>> /\ procdir = <<>> /\ pre_filter = None
    /\ dop = "init" /\ darg = None /\ dstatus = "none" /\ dvalue = None
    /\ built = <<>> /\ saved = <<>> /\ cached = <<>> /\ passes = 0
    /\ idx_id = <<>> /\ idx_json = None

\* MakeGraph(datadir, filename, nodeweight, maxlinkingdistance)
InitGraph ==
    /\ df \in Tables
    /\ nodeweight \in NodeWeights
    /\ ld \in LinkDistances
    /\ op = "init" /\ image = None /\ status = "none"
    /\ nodes = <<>> /\ edges = <<>> /\ distcalls = 0 /\ G = EmptyGraph /\ images = {}
    /\ NoDataset

CallAddNodes ==
    \E r \in {addnodes(df, nodeweight)} :
        /\ df' = r.df
        /\ op' = "addnodes" /\ image' = None /\ status' = "returned"
        /\ nodes' = r.nodes /\ edges' = <<>> /\ distcalls' = 0 /\ G' = EmptyGraph
        /\ UNCHANGED <<nodeweight, ld, images>>
        /\ UNCHANGED dvars

CallAddEdges ==
    /\ op' = "addedges" /\ image' = None
    /\ IF {"XCentroid", "YCentroid"} \subseteq df.cols
       THEN \E r \in {addedges(df, ld)} :
                status' = "returned" /\ edges' = r.edges /\ distcalls' = r.dists
       ELSE status' = "KeyError" /\ edges' = <<>> /\ distcalls' = 0
    /\ nodes' = <<>> /\ G' = EmptyGraph
    /\ UNCHANGED <<df, nodeweight, ld, images>>
    /\ UNCHANGED dvars

CallGraph ==
    \E img \in {"no", "yes"} :
        \E r \in {graph(df, nodeweight, ld, img)} :
            /\ df' = r.df
            /\ op' = "graph" /\ image' = img /\ status' = r.status
            /\ nodes' = r.nodes /\ edges' = r.edges /\ distcalls' = r.dists /\ G' = r.G
            /\ images' = IF r.png THEN images \cup {"GraphImages/filename.png"} ELSE images
            /\ UNCHANGED <<nodeweight, ld>>
            /\ UNCHANGED dvars

NextGraph == CallAddNodes \/ CallAddEdges \/ CallGraph

SpecGraph == InitGraph /\ [][NextGraph]_vars

\* ------------------------------------------------- claims on the builder
GraphReturned == op = "graph" /\ status = "returned"
RowIndexes == 1..Len(df.rows)
IdOf(i) == df.rows[i]["id"]

\* (2 * dist)^2 for the centroids ((XMin+XMax)/2, (YMin+YMax)/2) of rows i and j
CentroidDistance(i, j) ==
    LET dx == (df.rows[i]["XMin"] + df.rows[i]["XMax"])
              - (df.rows[j]["XMin"] + df.rows[j]["XMax"])
        dy == (df.rows[i]["YMin"] + df.rows[i]["YMax"])
              - (df.rows[j]["YMin"] + df.rows[j]["YMax"])
    IN  dx * dx + dy * dy

WithinLinkDistance(q) == 0 < q /\ ld > 0 /\ q < 4 * ld * ld

\* C1: the graph returned by graph() has an edge between two distinct record
\* ids a and b if and only if the distance between their untruncated centroids
\* satisfies 0 < dist < max_link_distance (no edge at distance 0 or at exactly
\* max_link_distance), the edge's length is that distance, and the graph has
\* no other edge.
C1_EdgeIffWithinLinkDistance ==
    GraphReturned =>
        /\ \A i, j \in RowIndexes :
              IdOf(i) # IdOf(j) =>
                 /\ has_edge(G, str(IdOf(i)), str(IdOf(j)))
                       <=> WithinLinkDistance(CentroidDistance(i, j))
                 /\ has_edge(G, str(IdOf(i)), str(IdOf(j))) =>
                       G.adj[<<str(IdOf(i)), str(IdOf(j))>>] =
                           [length |-> CentroidDistance(i, j)]
        /\ \A e \in DOMAIN G.adj :
              \E i, j \in RowIndexes :
                 IdOf(i) # IdOf(j) /\ e = <<str(IdOf(i)), str(IdOf(j))>>

\* C1 witness: a returned graph with a pair at exactly max_link_distance and
\* a pair at distance 0, both without an edge, or with a linked pair as well
C1_Witness ==
    /\ GraphReturned
    /\ \E i, j \in RowIndexes :
          /\ IdOf(i) # IdOf(j)
          /\ CentroidDistance(i, j) = 4 * ld * ld
          /\ ~has_edge(G, str(IdOf(i)), str(IdOf(j)))
    /\ \E i, j \in RowIndexes :
          /\ IdOf(i) # IdOf(j)
          /\ has_edge(G, str(IdOf(i)), str(IdOf(j)))
          /\ CentroidDistance(i, j) > 0

\* a returned graph with two distinct records on the same centroid
C1_WitnessZero ==
    /\ GraphReturned /\ ld > 0
    /\ \E i, j \in RowIndexes :
          /\ IdOf(i) # IdOf(j)
          /\ CentroidDistance(i, j) = 0
          /\ ~has_edge(G, str(IdOf(i)), str(IdOf(j)))

EdgesReturned == op \in {"addedges", "graph"} /\ status = "returned"
Unordered(e) == {e[1], e[2]}

\* C2 as stated: neither the list returned by addedges() nor the edge set of
\* the graph stores (b,a) next to (a,b), and no unordered pair appears twice.
C2_Original ==
    /\ EdgesReturned =>
          \A k, l \in 1..Len(edges) : k # l => Unordered(edges[k]) # Unordered(edges[l])
    /\ GraphReturned =>
          \A e, f \in EdgeView(G) : Unordered(e) = Unordered(f) => e = f

\* C2 amended: the edge set of the graph returned by graph() has at most one
\* edge per unordered pair and no self-loop; the list returned by addedges()
\* holds no ordered pair twice but holds every linked pair in both
\* orientations, (a,b) and (b,a), with the same length.
C2_GraphEdgesUniqueListBothWays ==
    /\ GraphReturned =>
          /\ \A e, f \in EdgeView(G) : Unordered(e) = Unordered(f) => e = f
          /\ \A e \in EdgeView(G) : e[1] # e[2]
          /\ Cardinality(EdgeView(G)) * 2 = Len(edges)
    /\ EdgesReturned =>
          /\ \A k, l \in 1..Len(edges) :
                k # l => <<edges[k][1], edges[k][2]>> # <<edges[l][1], edges[l][2]>>
          /\ \A k \in 1..Len(edges) :
                \E l \in 1..Len(edges) :
                   edges[l] = <<edges[k][2], edges[k][1], edges[k][3]>>

\* C2 witness: a returned graph with an edge, whose list holds both orientations
C2_Witness ==
    /\ GraphReturned
    /\ Cardinality(EdgeView(G)) >= 2
    /\ \E k, l \in 1..Len(edges) :
          k # l /\ edges[l] = <<edges[k][2], edges[k][1], edges[k][3]>>

AddnodesIds == {nodes[i][1] : i \in 1..Len(nodes)}

\* C3 as stated: for any nodeweight list, both endpoints of every edge of the
\* returned graph are among the nodes addnodes() produced.
C3_Original ==
    GraphReturned =>
        \A e \in DOMAIN G.adj : e[1] \in AddnodesIds /\ e[2] \in AddnodesIds

\* truncation toward zero of h / 2
Truncated(h) ==
    CHOOSE z \in -Abs(h)..Abs(h) :
        /\ 2 * Abs(z) <= Abs(h) /\ Abs(h) < 2 * Abs(z) + 2
        /\ z * h >= 0

NodesReturned == op \in {"addnodes", "graph"} /\ status = "returned"

\* C4: with one or two weight columns, addnodes() yields exactly one node per
\* record, in row order, whose id is the string form of the record id, whose
\* position is the centroid with each coordinate truncated to an integer and
\* whose weight is the value of weight_columns[0]; 'size' is the value of
\* weight_columns[1] on every node when two columns are given, and absent on
\* every node when one is given.
C4_OneNodePerRecord ==
    (NodesReturned /\ Len(nodeweight) \in {1, 2}) =>
        /\ Len(nodes) = Len(df.rows)
        /\ \A i \in RowIndexes :
              /\ nodes[i][1] = str(IdOf(i))
              /\ nodes[i][2].pos =
                    <<Truncated(df.rows[i]["XMin"] + df.rows[i]["XMax"]),
                      Truncated(df.rows[i]["YMin"] + df.rows[i]["YMax"])>>
              /\ nodes[i][2].weight = df.rows[i][nodeweight[1]]
              /\ ("size" \in DOMAIN nodes[i][2]) <=> (Len(nodeweight) = 2)
              /\ Len(nodeweight) = 2 => nodes[i][2].size = df.rows[i][nodeweight[2]]

\* C4 witness: two weight columns and a record whose centroid is negative
\* and not an integer
C4_Witness ==
    /\ NodesReturned /\ Len(nodeweight) = 2
    /\ \E i \in RowIndexes :
          /\ df.rows[i]["XMin"] + df.rows[i]["XMax"] = -3
          /\ nodes[i][2].pos[1] = -1
          /\ nodes[i][2].size # nodes[i][2].weight
    /\ Len(nodes) >= 2 /\ IdOf(1) > IdOf(2)

\* C5 as stated: a build with 0 or more than 2 weight columns, or with a
\* max_link_distance that is not positive, fails with InvalidConfiguration
\* and returns no graph.
C5_Original ==
    (op = "graph" /\ (Len(nodeweight) = 0 \/ Len(nodeweight) > 2 \/ ld <= 0)) =>
        status = "InvalidConfiguration" /\ G = EmptyGraph

PngFile == "GraphImages/filename.png"
CentroidColumns == {"XCentroid", "YCentroid"}

\* C13 as stated: a build leaves the record table as it was (same columns,
\* same values) and writes no file.
C13_Original ==
    [][op' = "graph" => (df' = df /\ images' = images)]_vars

\* C13 amended: graph(), addnodes() and addedges() leave every row and every
\* value of the columns the table had unchanged, and addnodes() and addedges()
\* write no file; but addnodes(), and so graph(), adds the columns XCentroid
\* and YCentroid to the table, and graph() writes datadir/GraphImages/
\* filename.png, and nothing else, exactly when it is called with image='yes'
\* and one or two weight columns.
C13_TableKeptColumnsAddedPngOnRequest ==
    [][op' \in {"graph", "addnodes", "addedges"} =>
          /\ Len(df'.rows) = Len(df.rows)
          /\ \A i \in 1..Len(df.rows) :
                \A c \in df.cols \ CentroidColumns : df'.rows[i][c] = df.rows[i][c]
          /\ op' \in {"graph", "addnodes"} => df'.cols = df.cols \cup CentroidColumns
          /\ op' = "addedges" => (df' = df /\ images' = images)
          /\ op' = "addnodes" => images' = images
          /\ op' = "graph" =>
                images' = IF image' = "yes" /\ Len(nodeweight) \in {1, 2}
                          THEN images \cup {PngFile} ELSE images]_vars

\* C13 witness: graph(image='yes') has run on a table with rows, has added
\* the centroid columns and has written the PNG
C13_Witness ==
    /\ op = "graph" /\ image = "yes" /\ status = "returned"
    /\ Len(df.rows) >= 2
    /\ CentroidColumns \subseteq df.cols
    /\ images = {PngFile}

\* the edge derivation has run to its end, alone or inside graph()
EdgesDerived ==
    \/ op = "addedges" /\ status = "returned"
    \/ op = "graph"

\* C15 as stated: one run of the edge derivation over n records evaluates
\* n(n-1)/2 distances, one per unordered pair of distinct records.
C15_Original ==
    EdgesDerived => 2 * distcalls = Len(df.rows) * (Len(df.rows) - 1)

\* C15 amended: one run of the edge derivation over n records evaluates n * n
\* distances, one per ordered pair of records, a record paired with itself
\* included.
C15_DistancePerOrderedPair ==
    EdgesDerived => distcalls = Len(df.rows) * Len(df.rows)

\* C15 witness: addedges() has run over a table of MaxRecords records and
\* evaluated MaxRecords * MaxRecords distances, not one per unordered pair
C15_Witness ==
    /\ op = "addedges" /\ status = "returned"
    /\ Len(df.rows) = MaxRecords
    /\ distcalls = MaxRecords * MaxRecords
    /\ 2 * distcalls # MaxRecords * (MaxRecords - 1)

\* ------------------------------------------------------- the dataset layer
\* A file name is the sequence of its pieces; ".csv", ".pt", ".txt" and
\* ".bak" are pieces of their own and occur inside no other piece.
csv == ".csv"
pt == ".pt"

\* file.endswith(f'.{filetype}')
endswith(file, ext) == Len(file) > 0 /\ file[Len(file)] = ext

\* file.split(f'.{filetype}')[0]: what precedes the first occurrence
split0(file, ext) ==
    LET first == CHOOSE i \in 1..Len(file) :
                    file[i] = ext /\ \A j \in 1..(i - 1) : file[j] # ext
    IN  IF \E i \in 1..Len(file) : file[i] = ext
        THEN SubSeq(file, 1, first - 1)
        ELSE file

\* retrieve_file_path(directory, filetype), over the os.listdir order
retrieve_file_path(listdir, filetype) ==
    LET kept == SelectSeq(listdir, LAMBDA file : endswith(file, filetype))
    IN  [k \in 1..Len(kept) |-> split0(kept[k], filetype)]

FileNames(dir) == {dir[i][1] : i \in 1..Len(dir)}

\* f'{root}/processed/graph_{idx}.pt'
GraphFile(idx) == <<"graph_", str(idx), pt>>

\* def graph(self, image='no'): the keyword parameters graph() takes
GraphParameters == {"image"}
\* .graph(torch_graph=True): the keywords process() passes
ProcessKeywords == {"torch_graph"}

\* maxlinkingdistance and nodeweight passed by process()
ProcessLinkDistance == 75
ProcessNodeWeight == <<"Stain 1 Nucleus OD", "Stain 2 Cytoplasm OD">>

\* a pre_filter: a predicate on the graph of a sample
PreFilters == {None, "not_b"}
ApplyPreFilter(f, g) == g.sample # <<"b">>

\* torch.save(graph, path): a new file, or new content of an old one
torch_save(dir, name, g) ==
    IF name \in FileNames(dir)
    THEN [i \in 1..Len(dir) |-> IF dir[i][1] = name THEN <<name, g>> ELSE dir[i]]
    ELSE Append(dir, <<name, g>>)

\* line 97, idx_id[str(idx)]: matrix_file, is an annotated target without a
\* value: the annotation is not evaluated and nothing is stored
annotate(d, key, annotation) == d

\* lines 82-97: the loop of process() from entry k of the listing on;
\* st = [status, built, saved, procdir, idx_id]
RECURSIVE processloop(_, _, _, _, _)
processloop(raw, listing, filter, k, st) ==
    IF k > Len(listing) THEN st
    ELSE LET idx == k - 1
             matrix_file == listing[k]
             st1 == [st EXCEPT !.built = Append(@, matrix_file)]
         IN  IF (matrix_file \o <<csv>>) \notin Range(raw)
             THEN [st1 EXCEPT !.status = "FileNotFoundError"]
             ELSE IF ~(ProcessKeywords \subseteq GraphParameters)
             THEN [st1 EXCEPT !.status = "TypeError"]
             ELSE LET g == [sample |-> matrix_file,
                            nodeweight |-> ProcessNodeWeight,
                            ld |-> ProcessLinkDistance]
                  IN  IF filter # None /\ ~ApplyPreFilter(filter, g)
                      THEN processloop(raw, listing, filter, k + 1, st1)
                      ELSE processloop(raw, listing, filter, k + 1,
                              [st1 EXCEPT
                                  !.saved = Append(@, GraphFile(idx)),
                                  !.procdir = torch_save(@, GraphFile(idx), g),
                                  !.idx_id = annotate(@, str(idx), matrix_file)])

\* process() up to the end of its loop; line 81: idx_id = defaultdict(dict)
process(raw, proc, filter) ==
    processloop(raw, retrieve_file_path(raw, csv), filter, 1,
                [status |-> "loop_done", built |-> <<>>, saved |-> <<>>,
                 procdir |-> proc, idx_id |-> EmptyDict])

\* lines 99-100: open('PositionInputData/idx_id.json', 'wb') fails without
\* the directory and otherwise leaves an empty file; json.dump then hands
\* fp.write a str, which a file opened in binary mode refuses, whatever obj
\* holds. file is the file before, hasdir whether the directory exists.
dump(obj, file, hasdir) ==
    IF ~hasdir THEN [status |-> "FileNotFoundError", file |-> file]
    ELSE [status |-> "TypeError", file |-> ""]

\* len(): len(self.processed_file_names)
len(proc) ==
    Len(retrieve_file_path([i \in 1..Len(proc) |-> proc[i][1]], pt))

\* get(idx): torch.load(f'{root}/processed/graph_{idx}.pt')
get(proc, idx) ==
    IF GraphFile(idx) \in FileNames(proc)
    THEN [status |-> "returned",
          value |-> (CHOOSE f \in Range(proc) : f[1] = GraphFile(idx))]
    ELSE [status |-> "FileNotFoundError", value |-> None]

\* ---------------------------------------------------- the dataset's actions
NoBuilder ==
    /\ df = [cols |-> {}, rows |-> <<>>] /\ nodeweight = <<>> /\ ld = 0
    /\ op = "init" /\ image = None /\ status = "none"
    /\ nodes = <<>> /\ edges = <<>> /\ distcalls = 0 /\ G = EmptyGraph /\ images = {}

\* the files a raw directory may hold: a.csv, b.csv, a.txt, a.csv.bak.csv
RawNames == {<<"a", csv>>, <<"b", csv>>, <<"a", ".txt">>, <<"a", csv, ".bak", csv>>}

InjectiveSeqs(S, n) ==
    UNION {{f \in [1..m -> S] : \A i, j \in 1..m : i # j => f[i] # f[j]} : m \in 0..n}

StoredGraph == [sample |-> <<"stored">>,
                nodeweight |-> ProcessNodeWeight, ld |-> ProcessLinkDistance]

\* NuclearSubtypeDataset(root): root/raw and root/processed hold what the
\* user's directories hold; artifacts may have been removed by hand
InitData ==
    /\ rawdir \in InjectiveSeqs(RawNames, MaxRaw)
    /\ \E names \in InjectiveSeqs({GraphFile(k) : k \in 0..MaxIdx}, MaxIdx + 1) :
          procdir = [i \in 1..Len(names) |-> <<names[i], StoredGraph>>]
    /\ pre_filter \in PreFilters
    /\ dop = "init" /\ darg = None /\ dstatus = "none" /\ dvalue = None
    /\ built = <<>> /\ saved = <<>> /\ cached = <<>> /\ passes = 0
    /\ idx_id = <<>> /\ idx_json = None
    /\ NoBuilder

\* process(): the loop, then lines 98-100; the working directory holds the
\* directory PositionInputData or not, and holds it once the file is there
Process ==
    \E r \in {process(rawdir, procdir, pre_filter)} :
        /\ dop' = "process" /\ darg' = None /\ dvalue' = None
        /\ IF r.status = "loop_done"
           THEN \E hasdir \in IF idx_json = None THEN BOOLEAN ELSE {TRUE} :
                    \E w \in {dump(r.idx_id, idx_json, hasdir)} :
                        /\ dstatus' = w.status
                        /\ idx_json' = w.file
                        /\ idx_id' = <<r.idx_id>>
           ELSE dstatus' = r.status /\ idx_id' = <<>> /\ idx_json' = idx_json
        /\ procdir' = r.procdir
        /\ built' = r.built /\ saved' = r.saved
        /\ cached' = procdir
        /\ passes' = IF passes < MaxPasses THEN passes + 1 ELSE passes
        /\ UNCHANGED <<rawdir, pre_filter>>
        /\ UNCHANGED bvars

CallRawFileNames ==
    /\ dop' = "raw_file_names" /\ darg' = None /\ dstatus' = "returned"
    /\ dvalue' = retrieve_file_path(rawdir, csv)
    /\ built' = <<>> /\ saved' = <<>> /\ cached' = <<>> /\ idx_id' = <<>>
    /\ UNCHANGED <<rawdir, procdir, pre_filter, idx_json, passes>>
    /\ UNCHANGED bvars

CallLen ==
    /\ dop' = "len" /\ darg' = None /\ dstatus' = "returned"
    /\ dvalue' = len(procdir)
    /\ built' = <<>> /\ saved' = <<>> /\ cached' = <<>> /\ idx_id' = <<>>
    /\ UNCHANGED <<rawdir, procdir, pre_filter, idx_json, passes>>
    /\ UNCHANGED bvars

CallGet ==
    \E idx \in 0..(MaxIdx + 1) :
        \E r \in {get(procdir, idx)} :
            /\ dop' = "get" /\ darg' = idx
            /\ dstatus' = r.status /\ dvalue' = r.value
            /\ built' = <<>> /\ saved' = <<>> /\ cached' = <<>> /\ idx_id' = <<>>
            /\ UNCHANGED <<rawdir, procdir, pre_filter, idx_json, passes>>
            /\ UNCHANGED bvars

\* the user puts a file into root/raw; os.listdir may list it anywhere
RawCreate ==
    /\ Len(rawdir) < MaxRaw
    /\ \E name \in RawNames \ Range(rawdir), at \in 0..Len(rawdir) :
          rawdir' = SubSeq(rawdir, 1, at) \o <<name>> \o SubSeq(rawdir, at + 1, Len(rawdir))
    /\ passes' = 0
    /\ dop' = "raw_changed" /\ darg' = None /\ dstatus' = "none" /\ dvalue' = None
    /\ built' = <<>> /\ saved' = <<>> /\ cached' = <<>> /\ idx_id' = <<>>
    /\ UNCHANGED <<procdir, pre_filter, idx_json>>
    /\ UNCHANGED bvars

\* the user removes a file from root/raw
RawDelete ==
    /\ \E at \in 1..Len(rawdir) :
          rawdir' = SubSeq(rawdir, 1, at - 1) \o SubSeq(rawdir, at + 1, Len(rawdir))
    /\ passes' = 0
    /\ dop' = "raw_changed" /\ darg' = None /\ dstatus' = "none" /\ dvalue' = None
    /\ built' = <<>> /\ saved' = <<>> /\ cached' = <<>> /\ idx_id' = <<>>
    /\ UNCHANGED <<procdir, pre_filter, idx_json>>
    /\ UNCHANGED bvars

NextData ==
    Process \/ CallRawFileNames \/ CallLen \/ CallGet \/ RawCreate \/ RawDelete

SpecData == InitData /\ [][NextData]_vars

\* ------------------------------------------------- claims on the dataset
\* a process() call has just ended
ProcessRan == dop = "process" /\ passes >= 1
RawListing == retrieve_file_path(rawdir, csv)

\* the positions of the raw listing whose artifact graph_{idx}.pt was not in
\* the processed store when the pass began
Uncached == {k \in 1..Len(RawListing) : GraphFile(k - 1) \notin FileNames(cached)}

\* C6 as stated: one process() pass invokes the builder exactly for the raw
\* samples that have no artifact in the processed store, once each, and for no
\* sample that has one.
C6_Original ==
    ProcessRan =>
        /\ Len(built) = Cardinality(Uncached)
        /\ \A k \in Uncached : RawListing[k] \in Range(built)
        /\ \A i \in 1..Len(built) : \E k \in Uncached : RawListing[k] = built[i]

\* C7 as stated: the second of two process() passes over an unchanged raw
\* directory invokes the builder for no sample and writes no artifact.
C7_Original ==
    (dop = "process" /\ passes >= 2) => (built = <<>> /\ saved = <<>>)

\* C8 as stated: get(index) with index >= len() fails and returns no graph.
\* (That get() leaves the store as it is holds by CallGet's UNCHANGED.)
C8_Original ==
    (dop = "get" /\ darg >= len(procdir)) => (dstatus # "returned" /\ dvalue = None)

\* the artifacts of the store in the order of its listing (processed_file_names)
ArtifactListing == SelectSeq(procdir, LAMBDA f : endswith(f[1], pt))

\* C9 as stated: for every index i with 0 <= i < len(), get(i) succeeds and
\* returns the artifact at position i of the store's current listing.
C9_Original ==
    (dop = "get" /\ darg >= 0 /\ darg < len(procdir)) =>
        (dstatus = "returned" /\ dvalue = ArtifactListing[darg + 1])

\* C10 as stated: distinct raw input files get distinct sample identities, and
\* a pass never writes, under an artifact key that was already in the store,
\* the graph of another sample than the one the key held.
C10_Original ==
    /\ dop = "raw_file_names" =>
          \A i, j \in 1..Len(dvalue) : i # j => dvalue[i] # dvalue[j]
    /\ dop = "process" =>
          \A i \in 1..Len(procdir) : \A j \in 1..Len(cached) :
              (procdir[i][1] = cached[j][1] /\ procdir[i][1] \in Range(saved)) =>
                  procdir[i][2].sample = cached[j][2].sample

\* C11 as stated: a builder failure for one sample does not end the pass: a
\* pass that invoked the builder (which fails, here, for every sample) goes on
\* to every raw sample and returns (the list of failures) rather than raising.
C11_Original ==
    (ProcessRan /\ Len(RawListing) >= 1) =>
        (dstatus = "returned" /\ Len(built) = Len(RawListing))

\* every .csv file of root/raw is the file MakeGraph reads for its sample id
WellFormedRaw ==
    \A i \in 1..Len(rawdir) :
        endswith(rawdir[i], csv) => split0(rawdir[i], csv) \o <<csv>> = rawdir[i]

\* C12 as stated: process() over well-formed CSV files, without pre_filter,
\* completes without error, and root/processed then holds graph_{idx}.pt for
\* every raw CSV file.
C12_Original ==
    (ProcessRan /\ pre_filter = None /\ WellFormedRaw /\ Len(RawListing) >= 1) =>
        /\ dstatus = "returned"
        /\ \A k \in 1..Len(RawListing) : GraphFile(k - 1) \in FileNames(procdir)

\* process() has come to line 98, the end of its loop
LoopEnded == dop = "process" /\ passes >= 1 /\ Len(idx_id) = 1

\* C16 as stated: when process() reaches the end of its loop, idx_id has, for
\* every idx whose artifact graph_{idx}.pt this pass saved, an entry mapping
\* idx to the raw file name it was built from, and writing idx_id.json
\* succeeds.
C16_Original ==
    LoopEnded =>
        /\ \A k \in 1..Len(RawListing) :
              GraphFile(k - 1) \in Range(saved) =>
                  /\ str(k - 1) \in DOMAIN idx_id[1]
                  /\ idx_id[1][str(k - 1)] = RawListing[k]
        /\ dstatus = "returned"
        /\ idx_json = "{}"
====
